---- MODULE Spec2Model ----
(***************************************************************************)
(* Model of the two pipelines of bharat-ai-hub:                            *)
(*   src/src/ml/models/demand-forecasting.py  (DemandForecastingModel)     *)
(*   src/src/ml/models/health-diagnosis.py    (HealthDiagnosisModel)       *)
(* Each file is a program of its own; `program` says which one runs.       *)
(* Library calls (keras, sklearn, xgboost, boto3) are oracles: the values  *)
(* they return and whether they raise are inputs drawn with \E.            *)
(* Floats are fixed-point integers in units of 1/FixedOne.                 *)
(***************************************************************************)
EXTENDS Integers, Sequences, FiniteSets, TLC

VARIABLES program, dm, table, hm, patients, s3, ret, dDone, hDone

vars == <<program, dm, table, hm, patients, s3, ret, dDone, hDone>>

\* ---------------------------------------------------------------- bounds
SeqLen == 3
MaxRows == 5
MaxDays == 2
FixedOne == 2
NumFeatures == 5
DefaultDays == 7
DefaultSequenceLength == 30

\* ---------------------------------------------------------------- helpers
Range(s) == {s[i] : i \in 1..Len(s)}

SetMin(S) == CHOOSE x \in S : \A y \in S : x <= y

SetMax(S) == CHOOSE x \in S : \A y \in S : x >= y

SeqsUpTo(S, n) == UNION {[1..k -> S] : k \in 0..n}

\* the function f with every value computed once (TLC keeps a function
\* constructor as an unevaluated expression otherwise)
Eval(f) == f @@ <<>>

\* Body applied to the value of v, computed once
Let(v, Body(_)) == CHOOSE r \in {Body(x) : x \in {v}} : TRUE

\* =========================================================================
\* demand-forecasting.py
\* =========================================================================

NoModel == [origin |-> "None", trained |-> FALSE]

NoScaler == [fitted |-> FALSE, data_min |-> <<>>, data_max |-> <<>>]

\* DemandForecastingModel.__init__
DemandModel(sequence_length, features) ==
    [sequence_length |-> sequence_length, features |-> features,
     model |-> NoModel, scaler |-> NoScaler]

\* DemandForecastingModel(sequence_length=SeqLen): the instance of the caller
DemandInit == DemandModel(SeqLen, NumFeatures)

\* DemandForecastingModel(): the defaults of __init__, as lambda_handler
\* constructs it (line 195)
DemandDefault == DemandModel(DefaultSequenceLength, NumFeatures)

\* DemandForecastingModel.build_model: a new, compiled, untrained network
build_model(obj) == [obj EXCEPT !.model = [origin |-> "built", trained |-> FALSE]]

\* Dates are day numbers counted from 2023-01-01, a Sunday.
\* pd.to_datetime(...).dt.dayofweek: Monday = 0 ... Sunday = 6
DayOfWeek(date) == (date + 6) % 7

MonthStart == <<0, 31, 59, 90, 120, 151, 181, 212, 243, 273, 304, 334>>

\* pd.to_datetime(...).dt.month for a day of 2023
Month(date) == SetMax({m \in 1..12 : MonthStart[m] <= date})

\* .isin([5, 6]).astype(int)
IsWeekend(dow) == IF dow \in {5, 6} THEN 1 ELSE 0

\* data['is_holiday'] = 0 in the place of data.get('is_holiday', 0)
AddColumnsResetHoliday(data) ==
    LET newcols == data.cols \cup {"day_of_week", "month", "is_weekend", "is_holiday"}
        newrow(r) == Eval([c \in newcols |->
            CASE c = "day_of_week" -> DayOfWeek(r["date"])
              [] c = "month"       -> Month(r["date"])
              [] c = "is_weekend"  -> IsWeekend(DayOfWeek(r["date"]))
              [] c = "is_holiday"  -> 0
              [] OTHER             -> r[c]])
    IN [cols |-> newcols, rows |-> Eval([i \in 1..Len(data.rows) |-> newrow(data.rows[i])])]

\* lines 61-64: the four column assignments on the caller's DataFrame
AddColumns(data) ==
    LET newcols == data.cols \cup {"day_of_week", "month", "is_weekend", "is_holiday"}
        newrow(r) == Eval([c \in newcols |->
            CASE c = "day_of_week" -> DayOfWeek(r["date"])
              [] c = "month"       -> Month(r["date"])
              [] c = "is_weekend"  -> IsWeekend(DayOfWeek(r["date"]))
              [] c = "is_holiday"  -> IF "is_holiday" \in data.cols THEN r["is_holiday"] ELSE 0
              [] OTHER             -> r[c]])
    IN [cols |-> newcols, rows |-> Eval([i \in 1..Len(data.rows) |-> newrow(data.rows[i])])]

\* lines 67-68: data[features].values
FeatureOrder == <<"sales", "price", "day_of_week", "month", "is_weekend">>

FeatureData(data) ==
    Eval([i \in 1..Len(data.rows) |->
            Eval([f \in 1..NumFeatures |-> data.rows[i][FeatureOrder[f]]])])

\* MinMaxScaler.fit: per-feature minimum and maximum
ScalerFit(fd) ==
    [fitted |-> TRUE,
     data_min |-> Eval([f \in 1..NumFeatures |-> SetMin({fd[i][f] : i \in 1..Len(fd)})]),
     data_max |-> Eval([f \in 1..NumFeatures |-> SetMax({fd[i][f] : i \in 1..Len(fd)})])]

\* sklearn replaces a zero range by 1
ScaleRange(sc, f) ==
    IF sc.data_max[f] = sc.data_min[f] THEN 1 ELSE sc.data_max[f] - sc.data_min[f]

\* MinMaxScaler.transform, in units of 1/FixedOne
ScalerTransform(sc, fd) ==
    Eval([i \in 1..Len(fd) |-> Eval([f \in 1..NumFeatures |->
        ((fd[i][f] - sc.data_min[f]) * FixedOne) \div ScaleRange(sc, f)])])

\* MinMaxScaler.inverse_transform(dummy_array)[:, 0], in units of 1/FixedOne
InverseSales(sc, p) == p * ScaleRange(sc, 1) + sc.data_min[1] * FixedOne

\* lines 73-79: the windows of sequence_length rows and their targets
Sequences(obj, sc, d1, scaled) ==
    LET L == obj.sequence_length
        nw == IF Len(scaled) > L THEN Len(scaled) - L ELSE 0
    IN [status |-> "ok", err |-> "",
        obj |-> [obj EXCEPT !.scaler = sc], data |-> d1,
        X |-> Eval([k \in 1..nw |-> SubSeq(scaled, k, k + L - 1)]),
        y |-> Eval([k \in 1..nw |-> scaled[k + L][1]])]

\* lines 67-71: select the features, fit the scaler on them and scale them
ScaleFeatures(obj, d1) ==
    Let(FeatureData(d1), LAMBDA fd :
    Let(ScalerFit(fd), LAMBDA sc :
    Let(ScalerTransform(sc, fd), LAMBDA scaled :
        Sequences(obj, sc, d1, scaled))))

\* DemandForecastingModel.prepare_data. Line 61 raises KeyError before any
\* assignment, line 68 after the four; MinMaxScaler.fit resets the scaler
\* before it validates its input, so fitting no rows leaves it unfitted.
prepare_data(obj, data) ==
    IF "date" \notin data.cols
    THEN [status |-> "raise", err |-> "KeyError: date", obj |-> obj, data |-> data,
          X |-> <<>>, y |-> <<>>]
    ELSE Let(AddColumns(data), LAMBDA d1 :
         IF ~ ({"sales", "price"} \subseteq d1.cols)
         THEN [status |-> "raise", err |-> "KeyError: not in index", obj |-> obj,
               data |-> d1, X |-> <<>>, y |-> <<>>]
         ELSE IF Len(d1.rows) = 0
         THEN [status |-> "raise", err |-> "ValueError: 0 samples",
               obj |-> [obj EXCEPT !.scaler = NoScaler],
               data |-> d1, X |-> <<>>, y |-> <<>>]
         ELSE ScaleFeatures(obj, d1))

\* lines 88-101: build the network if there is none, then fit it
TrainPrepared(p, fitOk) ==
    Let(IF p.obj.model.origin = "None" THEN build_model(p.obj) ELSE p.obj, LAMBDA o1 :
        IF Len(p.X) = 0 \/ ~fitOk
        THEN [status |-> "raise", err |-> "fit failed", obj |-> o1, data |-> p.data]
        ELSE [status |-> "ok", err |-> "",
              obj |-> [o1 EXCEPT !.model.trained = TRUE], data |-> p.data])

\* DemandForecastingModel.train; fitOk: whether keras' fit returns
train(obj, data, fitOk) ==
    Let(prepare_data(obj, data), LAMBDA p :
        IF p.status = "raise"
        THEN [status |-> "raise", err |-> p.err, obj |-> p.obj, data |-> p.data]
        ELSE TrainPrepared(p, fitOk))

\* np.roll with the direction of the shift mistaken
RollBackwards(seq, shift) ==
    Eval([i \in 1..Len(seq) |-> seq[((i - 1 + shift) % Len(seq)) + 1]])

\* np.roll(a, shift, axis=1) on the rows of the window
Roll(seq, shift) ==
    Eval([i \in 1..Len(seq) |-> seq[((i - 1 - shift) % Len(seq)) + 1]])

\* lines 121-126: one update of current_sequence with the value just predicted
PredictStep(window, pred) ==
    Let(Roll(window, -1), LAMBDA rolled :
        [rolled EXCEPT ![Len(rolled)] = [window[Len(window)] EXCEPT ![1] = pred]])

\* lines 115-126: windows[k] is current_sequence before iteration k
RECURSIVE PredictLoop(_, _, _)
PredictLoop(window, preds, k) ==
    IF k > Len(preds) THEN <<window>>
    ELSE <<window>> \o PredictLoop(PredictStep(window, preds[k]), preds, k + 1)

\* lines 110-133: the loop on the last window, then the inverse transform
PredictPrepared(p, days_ahead, preds) ==
    IF Len(p.X) = 0
    THEN [status |-> "raise", err |-> "IndexError", obj |-> p.obj, data |-> p.data,
          value |-> <<>>, windows |-> <<>>, iterations |-> 0]
    ELSE Let(PredictLoop(p.X[Len(p.X)], preds, 1), LAMBDA ws :
         IF Len(preds) < days_ahead
         THEN [status |-> "raise", err |-> "model.predict failed", obj |-> p.obj,
               data |-> p.data, value |-> <<>>, windows |-> ws,
               iterations |-> Len(preds)]
         ELSE IF days_ahead <= 0
         THEN [status |-> "raise", err |-> "ValueError: 0 samples", obj |-> p.obj,
               data |-> p.data, value |-> <<>>, windows |-> ws, iterations |-> 0]
         ELSE [status |-> "ok", err |-> "", obj |-> p.obj, data |-> p.data,
               value |-> Eval([k \in 1..Len(preds) |->
                                  InverseSales(p.obj.scaler, preds[k])]),
               windows |-> ws, iterations |-> Len(preds)])

\* DemandForecastingModel.predict; preds: the values keras' predict returns,
\* one per iteration; fewer than days_ahead values: the next call raised
predict(obj, data, days_ahead, preds) ==
    IF obj.model.origin = "None"
    THEN [status |-> "raise", err |-> "ValueError: Model not trained. Call train() first.",
          obj |-> obj, data |-> data, value |-> <<>>, windows |-> <<>>, iterations |-> 0]
    ELSE Let(prepare_data(obj, data), LAMBDA p :
         IF p.status = "raise"
         THEN [status |-> "raise", err |-> p.err, obj |-> p.obj, data |-> p.data,
               value |-> <<>>, windows |-> <<>>, iterations |-> 0]
         ELSE PredictPrepared(p, days_ahead, preds))

\* |a - b|
AbsDiff(a, b) == IF a >= b THEN a - b ELSE b - a

\* the sum of f(1), ..., f(n)
RECURSIVE SumTo(_, _)
SumTo(f, n) == IF n = 0 THEN 0 ELSE f[n] + SumTo(f, n - 1)

\* lines 141-159: the metrics from the inverse-scaled targets and predictions
\* (units of 1/FixedOne), each an exact quotient num/den; a den of 0 is the
\* division numpy answers with inf or nan
Metrics(actual, predicted) ==
    Let(SumTo(Eval([i \in 1..Len(actual) |-> AbsDiff(actual[i], predicted[i])]),
              Len(actual)), LAMBDA abs_sum :
    Let(SumTo(Eval([i \in 1..Len(actual) |->
                      (actual[i] - predicted[i]) * (actual[i] - predicted[i])]),
              Len(actual)), LAMBDA sq_sum :
    Let(SumTo(actual, Len(actual)), LAMBDA total :
        [mae |-> [num |-> abs_sum, den |-> Len(actual)],
         mse |-> [num |-> sq_sum, den |-> Len(actual)],
         rmse |-> [sqrt_of |-> [num |-> sq_sum, den |-> Len(actual)]],
         accuracy |-> [num |-> total - abs_sum, den |-> total]])))

NoMetrics == [mae |-> [num |-> 0, den |-> 0]]

\* lines 139-162: evaluate once prepare_data has returned
EvaluatePrepared(p, predictOk, preds) ==
    IF p.obj.model.origin = "None"
    THEN [status |-> "raise", err |-> "AttributeError: predict", obj |-> p.obj,
          data |-> p.data, value |-> NoMetrics]
    ELSE IF ~predictOk
    THEN [status |-> "raise", err |-> "model.predict failed", obj |-> p.obj,
          data |-> p.data, value |-> NoMetrics]
    ELSE IF Len(p.y) = 0
    THEN [status |-> "raise", err |-> "ValueError: 0 samples", obj |-> p.obj,
          data |-> p.data, value |-> NoMetrics]
    ELSE [status |-> "ok", err |-> "", obj |-> p.obj, data |-> p.data,
          value |-> Metrics(
              Eval([i \in 1..Len(p.y) |-> InverseSales(p.obj.scaler, p.y[i])]),
              Eval([i \in 1..Len(p.y) |-> InverseSales(p.obj.scaler, preds[i])]))]

\* DemandForecastingModel.evaluate; predictOk: whether keras' predict
\* returns; preds: what it returns, one value per window of test_data
evaluate(obj, test_data, predictOk, preds) ==
    Let(prepare_data(obj, test_data), LAMBDA p :
        IF p.status = "raise"
        THEN [status |-> "raise", err |-> p.err, obj |-> p.obj, data |-> p.data,
              value |-> NoMetrics]
        ELSE EvaluatePrepared(p, predictOk, preds))

\* ------------------------------------------------------------- storage
ModelKey == "demand-forecasting/model.h5"

LocalPath == "/tmp/demand_forecasting_model.h5"

Absent == [present |-> FALSE, trained |-> FALSE]

\* DemandForecastingModel.save_model; okSteps: how many of the two I/O calls
\* (model.save, upload_file) return before one raises
save_model(obj, store, key, okSteps) ==
    IF obj.model.origin = "None"
    THEN [status |-> "raise", err |-> "ValueError: No model to save",
          io |-> <<>>, store |-> store]
    ELSE IF okSteps = 0
    THEN [status |-> "raise", err |-> "save failed", io |-> <<>>, store |-> store]
    ELSE IF okSteps = 1
    THEN [status |-> "raise", err |-> "upload failed",
          io |-> <<[op |-> "write", file |-> LocalPath]>>, store |-> store]
    ELSE [status |-> "ok", err |-> "",
          io |-> <<[op |-> "write", file |-> LocalPath],
                   [op |-> "upload", file |-> LocalPath]>>,
          store |-> [store EXCEPT ![key] =
                        [present |-> TRUE, trained |-> obj.model.trained]]]

\* DemandForecastingModel.load_model; okSteps: how many of download_file,
\* load_model return; the download raises when the key is absent
load_model(obj, store, key, okSteps) ==
    IF ~store[key].present \/ okSteps = 0
    THEN [status |-> "raise", err |-> "download failed", obj |-> obj]
    ELSE IF okSteps = 1
    THEN [status |-> "raise", err |-> "load failed", obj |-> obj]
    ELSE [status |-> "ok", err |-> "",
          obj |-> [obj EXCEPT !.model =
                      [origin |-> "loaded", trained |-> store[key].trained]]]

\* except KeyError in the place of except Exception: the rest propagates
DemandErrorResponseKeyErrorOnly(err) ==
    IF err \in {"KeyError: body", "KeyError: data"}
    THEN [propagated |-> FALSE, statusCode |-> 500,
          body |-> [error |-> err, timestamp |-> "now"]]
    ELSE [propagated |-> TRUE, statusCode |-> 0, body |-> [error |-> err]]

\* lambda_handler (demand-forecasting.py), line 217: except Exception as e
DemandErrorResponse(err) ==
    [propagated |-> FALSE, statusCode |-> 500,
     body |-> [error |-> err, timestamp |-> "now"]]

\* lines 201-215: predict on the loaded model, then the response
DemandRespond(model, input_data, preds) ==
    LET days == IF input_data.hasDays THEN input_data.days_ahead ELSE DefaultDays IN
    Let(predict(model, input_data.data, days,
                SubSeq(preds, 1, IF Len(preds) < days THEN Len(preds) ELSE days)),
        LAMBDA r :
        [response |->
            IF r.status = "raise" THEN DemandErrorResponse(r.err)
            ELSE [propagated |-> FALSE, statusCode |-> 200,
                  body |-> [predictions |-> r.value, model_version |-> "1.0.0",
                            timestamp |-> "now"]],
         steps |-> <<"json.loads", "__init__", "load_model", "predict">>,
         invokedOn |-> model])

\* lambda_handler (demand-forecasting.py). ctorOk: the boto3 clients are
\* created; loadOk: the I/O calls of load_model that return; preds: what
\* keras' predict returns. steps and invokedOn record the calls made.
demand_lambda_handler(event, store, ctorOk, loadOk, preds) ==
    IF ~event.hasBody
    THEN [response |-> DemandErrorResponse("KeyError: body"), steps |-> <<>>,
          invokedOn |-> DemandDefault]
    ELSE IF ~event.body.wellFormed
    THEN [response |-> DemandErrorResponse("JSONDecodeError"), steps |-> <<>>,
          invokedOn |-> DemandDefault]
    ELSE IF ~ctorOk
    THEN [response |-> DemandErrorResponse("client creation failed"),
          steps |-> <<"json.loads">>, invokedOn |-> DemandDefault]
    ELSE Let(load_model(DemandDefault, store, ModelKey, loadOk), LAMBDA l :
         IF l.status = "raise"
         THEN [response |-> DemandErrorResponse(l.err),
               steps |-> <<"json.loads", "__init__">>, invokedOn |-> DemandDefault]
         ELSE IF ~event.body.value.hasData
         THEN [response |-> DemandErrorResponse("KeyError: data"),
               steps |-> <<"json.loads", "__init__", "load_model">>,
               invokedOn |-> DemandDefault]
         ELSE DemandRespond(l.obj, event.body.value, preds))

\* ------------------------------------------------------- demand inputs
StartDate == 28

\* two sales series: one varying, one constant
SalesAt(series, i) == IF series = 1 THEN 10 * (1 + (i % 3)) ELSE 20

DemandValue(series, c, i) ==
    CASE c = "date"       -> StartDate + i - 1
      [] c = "sales"      -> SalesAt(series, i)
      [] c = "price"      -> 50 + (i % 2)
      [] c = "is_holiday" -> 1
      [] OTHER            -> 0

DemandColumnSets ==
    {{"date", "sales", "price"}, {"date", "sales", "price", "is_holiday"},
     {"date", "price"}, {"sales", "price"}}

DemandTable(series, cols, n) ==
    [cols |-> cols,
     rows |-> Eval([i \in 1..n |-> Eval([c \in cols |-> DemandValue(series, c, i)])])]

\* the caller's tables: too short for one window (SeqLen rows) or long enough
\* (MaxRows rows), with every column set; one table of constant sales and
\* one without rows
DemandTables ==
    {DemandTable(1, cols, n) : cols \in DemandColumnSets, n \in {SeqLen, MaxRows}}
    \cup {DemandTable(2, {"date", "sales", "price"}, MaxRows),
          DemandTable(1, {"date", "sales", "price"}, 0)}

EmptyTable == [cols |-> {}, rows |-> <<>>]

\* what keras' predict may return, in units of 1/FixedOne
PredValues == {1, FixedOne}

Keys == {ModelKey}

S3States == [Keys -> {Absent, [present |-> TRUE, trained |-> FALSE],
                      [present |-> TRUE, trained |-> TRUE]}]

DemandPayloads ==
    {[hasData |-> FALSE, hasDays |-> FALSE, days_ahead |-> 0, data |-> EmptyTable]}
    \cup {[hasData |-> TRUE, hasDays |-> hd, days_ahead |-> IF hd THEN d ELSE 0, data |-> t] :
            hd \in BOOLEAN, d \in 1..MaxDays,
            t \in {DemandTable(1, {"date", "sales", "price"}, DefaultSequenceLength + 1),
                   DemandTable(1, {"date", "sales", "price"}, MaxRows)}}

DemandEvents ==
    {[hasBody |-> FALSE, body |-> [wellFormed |-> FALSE]],
     [hasBody |-> TRUE, body |-> [wellFormed |-> FALSE]]}
    \cup {[hasBody |-> TRUE, body |-> [wellFormed |-> TRUE, value |-> p]] : p \in DemandPayloads}

\* ------------------------------------------------------ demand actions
NoRet == [op |-> "none", status |-> "ok", err |-> ""]

DBuild ==
    /\ program = "demand"
    /\ ret.op = "none"
    /\ dm' = build_model(dm)
    /\ ret' = [op |-> "build_model", status |-> "ok", err |-> ""]
    /\ dDone' = dDone
    /\ UNCHANGED <<program, table, hm, patients, s3, hDone>>

DPrepare ==
    /\ program = "demand"
    /\ ret.op = "none"
    /\ \E r \in {prepare_data(dm, table)} :
       /\ dm' = r.obj
       /\ table' = r.data
       /\ ret' = [op |-> "prepare_data", status |-> r.status, err |-> r.err,
                  X |-> r.X, y |-> r.y]
    /\ UNCHANGED <<program, hm, patients, s3, dDone, hDone>>

DTrain ==
    /\ program = "demand"
    /\ ret.op = "none"
    /\ \E fitOk \in BOOLEAN :
         \E r \in {train(dm, table, fitOk)} :
         /\ dm' = r.obj
         /\ table' = r.data
         /\ ret' = [op |-> "train", status |-> r.status, err |-> r.err]
         /\ dDone' = IF r.status = "ok" THEN dDone \cup {"train"} ELSE dDone
    /\ UNCHANGED <<program, hm, patients, s3, hDone>>

DPredict ==
    /\ program = "demand"
    /\ ret.op = "none"
    /\ \E d \in 0..MaxDays : \E preds \in SeqsUpTo(PredValues, d) :
         \E r \in {predict(dm, table, d, preds)} :
         /\ dm' = r.obj
         /\ table' = r.data
         /\ ret' = [op |-> "predict", status |-> r.status, err |-> r.err,
                    days_ahead |-> d, preds |-> preds, value |-> r.value,
                    windows |-> r.windows, iterations |-> r.iterations]
    /\ UNCHANGED <<program, hm, patients, s3, dDone, hDone>>

\* the number of windows prepare_data makes of data
WindowCount(obj, data) ==
    IF Len(data.rows) > obj.sequence_length
    THEN Len(data.rows) - obj.sequence_length ELSE 0

DEvaluate ==
    /\ program = "demand"
    /\ ret.op = "none"
    /\ \E predictOk \in BOOLEAN :
       \E preds \in [1..WindowCount(dm, table) -> PredValues] :
         \E r \in {evaluate(dm, table, predictOk, preds)} :
         /\ dm' = r.obj
         /\ table' = r.data
         /\ ret' = [op |-> "evaluate", status |-> r.status, err |-> r.err,
                    value |-> r.value]
    /\ UNCHANGED <<program, hm, patients, s3, dDone, hDone>>

DSave ==
    /\ program = "demand"
    /\ ret.op = "none"
    /\ \E key \in Keys : \E okSteps \in 0..2 :
         \E r \in {save_model(dm, s3, key, okSteps)} :
         /\ s3' = r.store
         /\ ret' = [op |-> "save_model", status |-> r.status, err |-> r.err,
                    io |-> r.io]
    /\ UNCHANGED <<program, dm, table, hm, patients, dDone, hDone>>

DLoad ==
    /\ program = "demand"
    /\ ret.op = "none"
    /\ \E key \in Keys : \E okSteps \in 0..2 :
         \E r \in {load_model(dm, s3, key, okSteps)} :
         /\ dm' = r.obj
         /\ ret' = [op |-> "load_model", status |-> r.status, err |-> r.err]
         /\ dDone' = IF r.status = "ok" THEN dDone \cup {"load_model"} ELSE dDone
    /\ UNCHANGED <<program, table, hm, patients, s3, hDone>>

\* the days_ahead the handler passes to predict (0: predict is not reached)
RequestedDays(event) ==
    IF event.hasBody /\ event.body.wellFormed /\ event.body.value.hasData
    THEN IF event.body.value.hasDays THEN event.body.value.days_ahead ELSE DefaultDays
    ELSE 0

\* one invocation per run of the handler's process: the handler keeps no state
DLambda ==
    /\ program = "demand_lambda"
    /\ ret.op = "none"
    /\ \E event \in DemandEvents : \E ctorOk \in BOOLEAN : \E loadOk \in 0..2 :
       \E preds \in SeqsUpTo(PredValues, RequestedDays(event)) :
         \E r \in {demand_lambda_handler(event, s3, ctorOk, loadOk, preds)} :
         ret' = [op |-> "lambda_handler", status |-> "ok", err |-> "",
                 event |-> event, ctorOk |-> ctorOk, loadOk |-> loadOk, preds |-> preds,
                 response |-> r.response, steps |-> r.steps,
                 invokedOn |-> r.invokedOn]
    /\ UNCHANGED <<program, dm, table, hm, patients, s3, dDone, hDone>>

\* =========================================================================
\* health-diagnosis.py
\* =========================================================================
\* Text is a sequence of one-character strings.

UpperCase == <<"A","B","C","D","E","F","G","H","I","J","K","L","M",
               "N","O","P","Q","R","S","T","U","V","W","X","Y","Z">>

LowerCase == <<"a","b","c","d","e","f","g","h","i","j","k","l","m",
               "n","o","p","q","r","s","t","u","v","w","x","y","z">>

LowerChar(ch) ==
    IF \E i \in 1..26 : UpperCase[i] = ch
    THEN LowerCase[CHOOSE i \in 1..26 : UpperCase[i] = ch]
    ELSE ch

\* str.lower()
Lower(text) == Eval([i \in 1..Len(text) |-> LowerChar(text[i])])

\* keyword in text
Contains(text, keyword) ==
    \E i \in 1..(Len(text) - Len(keyword) + 1) :
        SubSeq(text, i, i + Len(keyword) - 1) = keyword

\* lines 66-82: symptom_keywords, in dictionary order
SymptomNames ==
    <<"fever", "cough", "headache", "fatigue",
      "nausea", "diarrhea", "chest_pain", "shortness_breath", "dizziness", "rash",
      "joint_pain", "abdominal_pain", "back_pain", "muscle_pain", "loss_appetite">>

SymptomKeywords ==
    << << <<"f", "e", "v", "e", "r">>,
        <<"t", "e", "m", "p", "e", "r", "a", "t", "u", "r", "e">>,
        <<"h", "o", "t">>,
        <<"b", "u", "r", "n", "i", "n", "g">> >>,
      << <<"c", "o", "u", "g", "h">>,
        <<"c", "o", "u", "g", "h", "i", "n", "g">>,
        <<"t", "h", "r", "o", "a", "t">> >>,
      << <<"h", "e", "a", "d", "a", "c", "h", "e">>,
        <<"h", "e", "a", "d", " ", "p", "a", "i", "n">>,
        <<"m", "i", "g", "r", "a", "i", "n", "e">> >>,
      << <<"t", "i", "r", "e", "d">>,
        <<"f", "a", "t", "i", "g", "u", "e">>,
        <<"w", "e", "a", "k", "n", "e", "s", "s">>,
        <<"e", "x", "h", "a", "u", "s", "t", "e", "d">> >>,
      << <<"n", "a", "u", "s", "e", "a">>,
        <<"v", "o", "m", "i", "t", "i", "n", "g">>,
        <<"s", "i", "c", "k">> >>,
      << <<"d", "i", "a", "r", "r", "h", "e", "a">>,
        <<"l", "o", "o", "s", "e", " ", "s", "t", "o", "o", "l">>,
        <<"s", "t", "o", "m", "a", "c", "h">> >>,
      << <<"c", "h", "e", "s", "t", " ", "p", "a", "i", "n">>,
        <<"c", "h", "e", "s", "t">>,
        <<"h", "e", "a", "r", "t">> >>,
      << <<"b", "r", "e", "a", "t", "h">>,
        <<"b", "r", "e", "a", "t", "h", "i", "n", "g">>,
        <<"r", "e", "s", "p", "i", "r", "a", "t", "o", "r", "y">> >>,
      << <<"d", "i", "z", "z", "y">>,
        <<"d", "i", "z", "z", "i", "n", "e", "s", "s">>,
        <<"l", "i", "g", "h", "t", "h", "e", "a", "d", "e", "d">> >>,
      << <<"r", "a", "s", "h">>,
        <<"s", "k", "i", "n">>,
        <<"i", "t", "c", "h", "i", "n", "g">>,
        <<"s", "p", "o", "t", "s">> >>,
      << <<"j", "o", "i", "n", "t">>,
        <<"a", "r", "t", "h", "r", "i", "t", "i", "s">>,
        <<"s", "t", "i", "f", "f">> >>,
      << <<"a", "b", "d", "o", "m", "i", "n", "a", "l">>,
        <<"s", "t", "o", "m", "a", "c", "h", " ", "p", "a", "i", "n">>,
        <<"b", "e", "l", "l", "y">> >>,
      << <<"b", "a", "c", "k", " ", "p", "a", "i", "n">>,
        <<"s", "p", "i", "n", "e">>,
        <<"l", "o", "w", "e", "r", " ", "b", "a", "c", "k">> >>,
      << <<"m", "u", "s", "c", "l", "e">>,
        <<"a", "c", "h", "e">>,
        <<"s", "o", "r", "e">> >>,
      << <<"a", "p", "p", "e", "t", "i", "t", "e">>,
        <<"e", "a", "t", "i", "n", "g">>,
        <<"h", "u", "n", "g", "e", "r">> >> >>

\* HealthDiagnosisModel.preprocess_symptoms: per symptom, in dictionary
\* order, 1 if one of its keywords occurs in the lower-cased text
preprocess_symptoms(symptoms_text) ==
    Let(Lower(symptoms_text), LAMBDA symptoms_lower :
        Eval([k \in 1..Len(SymptomNames) |->
            IF \E j \in 1..Len(SymptomKeywords[k]) :
                  Contains(symptoms_lower, SymptomKeywords[k][j])
            THEN 1 ELSE 0]))

MedicalConditions ==
    << <<"d","i","a","b","e","t","e","s">>,
       <<"h","y","p","e","r","t","e","n","s","i","o","n">>,
       <<"h","e","a","r","t","_","d","i","s","e","a","s","e">>,
       <<"a","s","t","h","m","a">> >>

HistoryNames ==
    <<"history_diabetes", "history_hypertension", "history_heart_disease",
      "history_asthma">>

Vitals ==
    <<"temperature", "blood_pressure_systolic", "blood_pressure_diastolic",
      "heart_rate", "respiratory_rate">>

Male == <<"m","a","l","e">>

Female == <<"f","e","m","a","l","e">>

\* row.get(key, default)
Get(row, key, default) == IF key \in DOMAIN row THEN row[key] ELSE default

\* pd.DataFrame(features).columns: the keys in insertion order
FeatureColumns(cols) ==
    <<"age", "gender_male", "gender_female">>
    \o (IF "symptoms" \in cols THEN SymptomNames ELSE <<>>)
    \o HistoryNames \o Vitals

\* the position of name in seq
IndexOf(seq, name) == CHOOSE k \in 1..Len(seq) : seq[k] = name

\* lines 97-122: the feature_vector of one row, from its lower-cased gender
\* and medical history and its symptom features
FeatureVectorOf(row, gender, history, symptom_features) ==
    Eval([c \in Range(FeatureColumns(DOMAIN row)) |->
        CASE c = "age"                  -> Get(row, "age", 0)
          [] c = "gender_male"          -> IF gender = Male THEN 1 ELSE 0
          [] c = "gender_female"        -> IF gender = Female THEN 1 ELSE 0
          [] c \in Range(SymptomNames)  -> symptom_features[IndexOf(SymptomNames, c)]
          [] c \in Range(HistoryNames)  ->
                IF Contains(history, MedicalConditions[IndexOf(HistoryNames, c)])
                THEN 1 ELSE 0
          [] OTHER                      -> Get(row, c, 0)])

FeatureVector(row) ==
    Let(Lower(Get(row, "gender", <<>>)), LAMBDA gender :
    Let(Lower(Get(row, "medical_history", <<>>)), LAMBDA history :
    Let(IF "symptoms" \in DOMAIN row THEN preprocess_symptoms(row["symptoms"]) ELSE <<>>,
        LAMBDA symptom_features :
        FeatureVectorOf(row, gender, history, symptom_features))))

\* HealthDiagnosisModel.prepare_features: a new DataFrame; data is only read
prepare_features(data) ==
    [columns |-> FeatureColumns(data.cols),
     rows |-> Eval([i \in 1..Len(data.rows) |-> FeatureVector(data.rows[i])])]

ModelNames == <<"random_forest", "gradient_boosting", "xgboost">>

NumModels == 3

NotFitted == [fitted |-> FALSE, n_features_in |-> 0]

\* HealthDiagnosisModel.__init__
HealthInit ==
    [models |-> [name \in Range(ModelNames) |-> FALSE],
     scaler |-> NotFitted,
     label_encoder |-> [classes |-> <<>>],
     feature_selector |-> NotFitted,
     feature_names |-> <<>>,
     diagnosis_classes |-> <<>>]

\* the diagnoses of the inputs, in the order np.unique sorts them
AllDiagnoses == <<"Angina", "Gastroenteritis", "Viral Infection">>

\* LabelEncoder.fit: classes_ is the sorted distinct labels
RECURSIVE SortedLabels(_, _)
SortedLabels(labels, k) ==
    IF k > Len(AllDiagnoses) THEN <<>>
    ELSE (IF AllDiagnoses[k] \in labels THEN <<AllDiagnoses[k]>> ELSE <<>>)
         \o SortedLabels(labels, k + 1)

\* ceil(0.2 * n): the size of the test part of train_test_split
TestSize(n) == (n + 4) \div 5

\* train_test_split(..., stratify=y) raises unless each class has two
\* members and each part has at least one sample per class
SplitRaises(y) ==
    LET classes == Range(y)
        count(c) == Cardinality({i \in 1..Len(y) : y[i] = c})
        n_test == TestSize(Len(y))
    IN \/ \E c \in classes : count(c) < 2
       \/ n_test < Cardinality(classes)
       \/ Len(y) - n_test < Cardinality(classes)

\* the library calls of train that may raise, in order
TrainStages ==
    <<"scaler.fit", "feature_selector.fit", "random_forest.fit",
      "gradient_boosting.fit", "xgboost.fit">>

\* lines 147-167: scaler, selector and classifiers are fitted in turn, the
\* estimator objects of self.models in place, until a stage raises.
\* StandardScaler.fit resets the scaler before it fits, so a scaler.fit that
\* raises leaves it unfitted; SelectKBest.fit assigns its scores last, so one
\* that raises keeps an earlier fit; a classifier whose fit raises keeps an
\* earlier fit (kept) or has lost it, by where in fit it raised.
FitStages(obj, n_features, okStages, kept) ==
    LET fit == [fitted |-> TRUE, n_features_in |-> n_features] IN
    [obj EXCEPT
        !.scaler = IF okStages >= 1 THEN fit ELSE NotFitted,
        !.feature_selector = IF okStages >= 2 THEN fit ELSE @,
        !.models = [name \in Range(ModelNames) |->
                       \/ \E k \in 1..NumModels : ModelNames[k] = name /\ okStages >= 2 + k
                       \/ /\ @[name]
                          /\ \A k \in 1..NumModels :
                                (ModelNames[k] = name /\ okStages = 1 + k) => kept]]

\* lines 135-181: train once X and y are there
TrainOn(obj, columns, y, okStages, kept) ==
    Let(SortedLabels(Range(y), 1), LAMBDA classes :
    Let([obj EXCEPT !.feature_names = columns,
                    !.label_encoder = [classes |-> classes],
                    !.diagnosis_classes = classes], LAMBDA o1 :
        IF Len(y) = 0 \/ SplitRaises(y)
        THEN [status |-> "raise", err |-> "ValueError: train_test_split", obj |-> o1]
        ELSE [status |-> IF okStages < Len(TrainStages) THEN "raise" ELSE "ok",
              err |-> IF okStages < Len(TrainStages) THEN TrainStages[okStages + 1] ELSE "",
              obj |-> FitStages(o1, Len(columns), okStages, kept)]))

\* HealthDiagnosisModel.train; okStages: how many of TrainStages return;
\* kept: whether a classifier whose fit raises keeps its earlier fit
health_train(obj, training_data, okStages, kept) ==
    IF "diagnosis" \notin training_data.cols
    THEN [status |-> "raise", err |-> "KeyError: diagnosis", obj |-> obj]
    ELSE TrainOn(obj, FeatureColumns(training_data.cols),
                 Eval([i \in 1..Len(training_data.rows) |->
                          training_data.rows[i]["diagnosis"]]),
                 okStages, kept)

\* np.unique(votes): the sorted distinct values
RECURSIVE SortedSeq(_)
SortedSeq(S) ==
    IF S = {} THEN <<>> ELSE <<SetMin(S)>> \o SortedSeq(S \ {SetMin(S)})

\* np.argmin in the place of np.argmax
ArgMin(counts) ==
    SetMin({k \in 1..Len(counts) : \A j \in 1..Len(counts) : counts[j] >= counts[k]})

\* np.argmax: the first index of the largest value
ArgMax(counts) ==
    SetMin({k \in 1..Len(counts) : \A j \in 1..Len(counts) : counts[j] <= counts[k]})

\* np.unique(votes, return_counts=True)[1]
Counts(votes, unique) ==
    Eval([k \in 1..Len(unique) |->
            Cardinality({j \in 1..Len(votes) : votes[j] = unique[k]})])

\* lines 207-209: the vote over one sample
MajorityVote(votes) ==
    Let(SortedSeq(Range(votes)), LAMBDA unique :
        unique[ArgMax(Counts(votes, unique))])

\* lines 185-194 and 216-221: the guard, then scaler and selector transform X.
\* An unfitted estimator raises NotFittedError; so does a wrong column count.
TransformFeatures(obj, X) ==
    IF DOMAIN obj.models = {}
    THEN [status |-> "raise", err |-> "ValueError: Models not trained", used |-> <<>>]
    ELSE IF ~obj.scaler.fitted
    THEN [status |-> "raise", err |-> "NotFittedError: StandardScaler",
          used |-> <<"scaler">>]
    ELSE IF obj.scaler.n_features_in # Len(X.columns)
    THEN [status |-> "raise", err |-> "ValueError: n_features", used |-> <<"scaler">>]
    ELSE IF ~obj.feature_selector.fitted
    THEN [status |-> "raise", err |-> "NotFittedError: SelectKBest",
          used |-> <<"scaler", "feature_selector">>]
    ELSE [status |-> "ok", err |-> "", used |-> <<"scaler", "feature_selector">>]

\* the first classifier, in dictionary order, that is not fitted (0: none)
FirstUnfitted(obj) ==
    IF \A k \in 1..NumModels : obj.models[ModelNames[k]] THEN 0
    ELSE SetMin({k \in 1..NumModels : ~obj.models[ModelNames[k]]})

\* lines 196-212: every classifier predicts, then the vote per sample
VoteAll(obj, X, preds, used, bad) ==
    IF bad # 0
    THEN [status |-> "raise", err |-> "NotFittedError: classifier",
          used |-> used \o SubSeq(ModelNames, 1, bad), value |-> <<>>]
    ELSE [status |-> "ok", err |-> "", used |-> used \o ModelNames,
          value |-> Eval([i \in 1..Len(X.rows) |->
                        MajorityVote(Eval([m \in 1..NumModels |-> preds[m][i]]))])]

\* HealthDiagnosisModel.predict_ensemble; preds[m][i]: the label classifier m
\* predicts for sample i
predict_ensemble(obj, X, preds) ==
    Let(TransformFeatures(obj, X), LAMBDA t :
        IF t.status = "raise"
        THEN [status |-> "raise", err |-> t.err, used |-> t.used, value |-> <<>>]
        ELSE VoteAll(obj, X, preds, t.used, FirstUnfitted(obj)))

\* a classifier without predict_proba is left out of the mean
HasPredictProbaButXgboost(name) == name # "xgboost"

\* hasattr(model, 'predict_proba'): all three classifier classes have it
HasPredictProba(name) == TRUE

\* the sum over the classifiers of all_probas[m][i][c]
RECURSIVE SumOver(_, _, _, _)
SumOver(all_probas, m, i, c) ==
    IF m = 0 THEN 0 ELSE all_probas[m][i][c] + SumOver(all_probas, m - 1, i, c)

\* np.mean(all_probas, axis=0): the exact quotient num/den per sample and class
MeanAxis0(all_probas) ==
    Eval([i \in 1..Len(all_probas[1]) |->
        Eval([c \in 1..Len(all_probas[1][i]) |->
            [num |-> SumOver(all_probas, Len(all_probas), i, c),
             den |-> Len(all_probas)]])])

\* lines 224-232: the classifiers that have predict_proba give their
\* probabilities, which are averaged
AverageAll(obj, probas, used, having) ==
    IF \E k \in 1..Len(having) : ~obj.models[ModelNames[having[k]]]
    THEN [status |-> "raise", err |-> "NotFittedError: classifier",
          used |-> used \o SubSeq(ModelNames, 1, FirstUnfitted(obj)), value |-> <<>>]
    ELSE IF Len(having) = 0
    THEN [status |-> "ok", err |-> "", used |-> used, value |-> <<>>]
    ELSE [status |-> "ok", err |-> "", used |-> used \o ModelNames,
          value |-> MeanAxis0(Eval([k \in 1..Len(having) |-> probas[having[k]]]))]

\* HealthDiagnosisModel.predict_proba_ensemble; probas[m][i][c]: the
\* probability classifier m gives class c for sample i
predict_proba_ensemble(obj, X, probas) ==
    Let(TransformFeatures(obj, X), LAMBDA t :
        IF t.status = "raise"
        THEN [status |-> "raise", err |-> t.err, used |-> t.used, value |-> <<>>]
        ELSE AverageAll(obj, probas, t.used,
                        SelectSeq(<<1, 2, 3>>, LAMBDA m : HasPredictProba(ModelNames[m]))))

PTotal == 1

\* np.argsort(proba): the indices by increasing value, equal values in index order
RECURSIVE ArgSort(_, _)
ArgSort(proba, left) ==
    IF left = {} THEN <<>>
    ELSE LET k == SetMin({a \in left : \A b \in left : proba[a].num <= proba[b].num})
         IN <<k>> \o ArgSort(proba, left \ {k})

\* [::-1]
Reverse(seq) == [i \in 1..Len(seq) |-> seq[Len(seq) + 1 - i]]

\* np.max(proba)
MaxProba(proba) ==
    proba[CHOOSE a \in 1..Len(proba) : \A b \in 1..Len(proba) : proba[b].num <= proba[a].num]

\* np.argsort(proba)[-3:][::-1]
TopIndices(proba) ==
    Let(ArgSort(proba, 1..Len(proba)), LAMBDA order :
        Reverse(SubSeq(order, IF Len(order) > 3 THEN Len(order) - 2 ELSE 1, Len(order))))

\* line 268
RiskLevel(confidence) ==
    IF 10 * confidence.num > 8 * confidence.den * PTotal THEN "high"
    ELSE IF 10 * confidence.num > 6 * confidence.den * PTotal THEN "medium"
    ELSE "low"

\* lines 250-269: the result for one sample. proba[c] = num/den in units of
\* 1/PTotal; class indices are 0-based in the code, 1-based here.
DiagnosisResult(obj, pred, proba) ==
    Let(TopIndices(proba), LAMBDA top_indices :
        [primary_diagnosis |-> obj.label_encoder.classes[pred + 1],
         confidence |-> MaxProba(proba),
         top_diagnoses |-> Eval([k \in 1..Len(top_indices) |->
             [diagnosis |-> obj.label_encoder.classes[top_indices[k]],
              probability |-> proba[top_indices[k]]]]),
         risk_level |-> RiskLevel(MaxProba(proba))])

\* lines 237-240: a dict becomes a one-row DataFrame
AsFrame(patient_data) ==
    IF patient_data.kind = "dict"
    THEN [cols |-> DOMAIN patient_data.row, rows |-> <<patient_data.row>>]
    ELSE patient_data.frame

\* lines 236-243: X, the features of the patient. A JSON array is a list:
\* it has no iterrows.
DiagnoseInput(patient_data) ==
    IF patient_data.kind = "list"
    THEN [status |-> "raise", X |-> <<>>]
    ELSE [status |-> "ok", X |-> prepare_features(AsFrame(patient_data))]

\* line 271: return results[0] if len(results) == 1 else results
SingleOrAll(results) == IF Len(results) = 1 THEN results[1] ELSE results

\* lines 247-271: the probabilities, then one result per sample; the result
\* itself when there is one
DiagnoseResults(obj, X, p, probas) ==
    Let(predict_proba_ensemble(obj, X, probas), LAMBDA q :
        IF q.status = "raise"
        THEN [status |-> "raise", err |-> q.err, used |-> p.used \o q.used,
              value |-> <<>>]
        ELSE [status |-> "ok", err |-> "", used |-> p.used \o q.used,
              value |-> SingleOrAll(Eval([i \in 1..Len(p.value) |->
                              DiagnosisResult(obj, p.value[i], q.value[i])]))])

\* lines 245-271: the rest of diagnose
DiagnoseFrom(obj, input, preds, probas) ==
    IF input.status = "raise"
    THEN [status |-> "raise", err |-> "AttributeError: iterrows", used |-> <<>>,
          value |-> <<>>]
    ELSE Let(predict_ensemble(obj, input.X, preds), LAMBDA p :
         IF p.status = "raise"
         THEN [status |-> "raise", err |-> p.err, used |-> p.used, value |-> <<>>]
         ELSE DiagnoseResults(obj, input.X, p, probas))

\* HealthDiagnosisModel.diagnose
diagnose(obj, patient_data, preds, probas) ==
    DiagnoseFrom(obj, DiagnoseInput(patient_data), preds, probas)

\* lines 292-312: the files in the order they are saved, named by component
SaveFiles(obj) ==
    SelectSeq(ModelNames, LAMBDA name : name \in DOMAIN obj.models)
    \o <<"scaler", "label_encoder", "feature_selector">>

\* the upload placed before the dump
SaveStepUploadFirst(files, j) ==
    [op |-> IF j % 2 = 1 THEN "upload" ELSE "write", file |-> files[(j + 1) \div 2]]

\* each file is dumped to the temporary directory, then uploaded
SaveStep(files, j) ==
    [op |-> IF j % 2 = 1 THEN "write" ELSE "upload", file |-> files[(j + 1) \div 2]]

\* HealthDiagnosisModel.save_model; okSteps: how many of the joblib.dump and
\* upload_file calls return before one raises
health_save_model(obj, okSteps) ==
    Let(SaveFiles(obj), LAMBDA files :
        [status |-> IF okSteps < 2 * Len(files) THEN "raise" ELSE "ok",
         err |-> IF okSteps < 2 * Len(files) THEN "I/O failed" ELSE "",
         io |-> Eval([j \in 1..(IF okSteps < 2 * Len(files) THEN okSteps
                                ELSE 2 * Len(files)) |-> SaveStep(files, j)])])

\* lambda_handler (health-diagnosis.py), line 341: except Exception as e
HealthErrorResponse(err) ==
    [propagated |-> FALSE, statusCode |-> 500,
     body |-> [error |-> err, timestamp |-> "now"]]

\* lambda_handler (health-diagnosis.py): the model is constructed and used as
\* constructed; line 324, the load from S3, is a comment
health_lambda_handler(event, ctorOk, preds, probas) ==
    IF ~event.hasBody
    THEN [response |-> HealthErrorResponse("KeyError: body"), steps |-> <<>>,
          invokedOn |-> HealthInit]
    ELSE IF ~event.body.wellFormed
    THEN [response |-> HealthErrorResponse("JSONDecodeError"), steps |-> <<>>,
          invokedOn |-> HealthInit]
    ELSE IF ~ctorOk
    THEN [response |-> HealthErrorResponse("client creation failed"),
          steps |-> <<"json.loads">>, invokedOn |-> HealthInit]
    ELSE Let(diagnose(HealthInit, event.body.value, preds, probas), LAMBDA r :
         [response |->
             IF r.status = "raise" THEN HealthErrorResponse(r.err)
             ELSE [propagated |-> FALSE, statusCode |-> 200,
                   body |-> [diagnosis |-> r.value,
                             model_version |-> "1.0.0", timestamp |-> "now",
                             disclaimer |-> "preliminary assessment"]],
          steps |-> <<"json.loads", "__init__", "diagnose">>,
          invokedOn |-> HealthInit])

\* ------------------------------------------------------- health inputs
MaxSamples == 2
MaxProbaSamples == 1
TrainRows == 11

FeverCough == <<"F","e","v","e","r",","," ","c","o","u","g","h">>

Nausea == <<"n","a","u","s","e","a">>

ChestPain == <<"C","h","e","s","t"," ","p","a","i","n">>

Diabetes == <<"d","i","a","b","e","t","e","s">>

\* three patients after the samples of lines 353-385, repeated in turn
PatientValue(c, i) ==
    LET k == i % 3 IN
    CASE c = "age"             -> IF k = 1 THEN 35 ELSE IF k = 2 THEN 28 ELSE 42
      [] c = "gender"          -> IF k = 2 THEN <<"F">> \o Tail(Female) ELSE Male
      [] c = "symptoms"        -> IF k = 1 THEN FeverCough ELSE IF k = 2 THEN Nausea
                                  ELSE ChestPain
      [] c = "medical_history" -> IF k = 1 THEN Diabetes ELSE <<>>
      [] c = "temperature"     -> IF k = 1 THEN 101 ELSE 99
      [] c = "diagnosis"       -> IF k = 1 THEN "Viral Infection"
                                  ELSE IF k = 2 THEN "Gastroenteritis" ELSE "Angina"
      [] OTHER                 -> 0

PatientColumns == {"age", "gender", "symptoms", "medical_history", "temperature"}

PatientRow(cols, i) == Eval([c \in cols |-> PatientValue(c, i)])

PatientTable(cols, n) ==
    [cols |-> cols, rows |-> Eval([i \in 1..n |-> PatientRow(cols, i)])]

\* the caller's tables: with and without the diagnosis and symptoms columns,
\* one row or enough rows for the stratified split
HealthTables ==
    {PatientTable(cols, n) :
        cols \in {PatientColumns \cup {"diagnosis"}, PatientColumns,
                  (PatientColumns \ {"symptoms"}) \cup {"diagnosis"}},
        n \in {1, TrainRows}}

\* the feature matrices passed to predict_ensemble
QueryTables(max) ==
    {PatientTable(PatientColumns, n) : n \in 1..max}
    \cup {PatientTable(PatientColumns \ {"symptoms"}, 1)}

\* encoded labels: 0 .. n_classes - 1
Labels(obj) ==
    IF obj.label_encoder.classes = <<>> THEN {0}
    ELSE 0..(Len(obj.label_encoder.classes) - 1)

\* probability rows of one classifier: the classes share PTotal
ProbaRows(obj) ==
    {row \in [1..Cardinality(Labels(obj)) -> 0..PTotal] :
        LET RECURSIVE S(_)
            S(c) == IF c = 0 THEN 0 ELSE row[c] + S(c - 1)
        IN S(Cardinality(Labels(obj))) = PTotal}

PatientInputs ==
    {[kind |-> "dict", row |-> PatientRow(PatientColumns, 1)],
     [kind |-> "dict", row |-> PatientRow(PatientColumns \ {"symptoms"}, 2)],
     [kind |-> "list"]}

HealthEvents ==
    {[hasBody |-> FALSE, body |-> [wellFormed |-> FALSE]],
     [hasBody |-> TRUE, body |-> [wellFormed |-> FALSE]]}
    \cup {[hasBody |-> TRUE, body |-> [wellFormed |-> TRUE, value |-> p]] :
            p \in PatientInputs}

\* ------------------------------------------------------ health actions
HPrepare ==
    /\ program = "health"
    /\ ret.op = "none"
    /\ ret' = [op |-> "prepare_features", status |-> "ok", err |-> "",
               value |-> prepare_features(patients)]
    /\ UNCHANGED <<program, dm, table, hm, patients, s3, dDone, hDone>>

HTrain ==
    /\ program = "health"
    /\ ret.op = "none"
    /\ \E okStages \in 0..Len(TrainStages) : \E kept \in BOOLEAN :
         \E r \in {health_train(hm, patients, okStages, kept)} :
         /\ hm' = r.obj
         /\ ret' = [op |-> "train", status |-> r.status, err |-> r.err]
         /\ hDone' = IF r.status = "ok" THEN hDone \cup {"train"} ELSE hDone
    /\ UNCHANGED <<program, dm, table, patients, s3, dDone>>

HPredict ==
    /\ program = "health"
    /\ ret.op = "none"
    /\ \E q \in QueryTables(MaxSamples) :
       \E X \in {prepare_features(q)} :
       \E preds \in [1..NumModels -> [1..Len(q.rows) -> Labels(hm)]] :
         \E r \in {predict_ensemble(hm, X, preds)} :
         ret' = [op |-> "predict_ensemble", status |-> r.status, err |-> r.err,
                 used |-> r.used, samples |-> Len(q.rows),
                 preds |-> IF r.status = "ok" THEN preds ELSE <<>>,
                 value |-> r.value]
    /\ UNCHANGED <<program, dm, table, hm, patients, s3, dDone, hDone>>

HPredictProba ==
    /\ program = "health"
    /\ ret.op = "none"
    /\ \E q \in QueryTables(MaxProbaSamples) :
       \E X \in {prepare_features(q)} :
       \E probas \in [1..NumModels -> [1..Len(q.rows) -> ProbaRows(hm)]] :
         \E r \in {predict_proba_ensemble(hm, X, probas)} :
         ret' = [op |-> "predict_proba_ensemble", status |-> r.status, err |-> r.err,
                 used |-> r.used, samples |-> Len(q.rows),
                 probas |-> IF r.status = "ok" THEN probas ELSE <<>>,
                 value |-> r.value]
    /\ UNCHANGED <<program, dm, table, hm, patients, s3, dDone, hDone>>

HDiagnose ==
    /\ program = "health"
    /\ ret.op = "none"
    /\ \E patient \in PatientInputs :
       \E input \in {DiagnoseInput(patient)} :
       \E preds \in [1..NumModels -> [1..1 -> Labels(hm)]] :
       \E probas \in [1..NumModels -> [1..1 -> ProbaRows(hm)]] :
         \E r \in {DiagnoseFrom(hm, input, preds, probas)} :
         ret' = [op |-> "diagnose", status |-> r.status, err |-> r.err,
                 used |-> r.used,
                 preds |-> IF r.status = "ok" THEN preds ELSE <<>>,
                 probas |-> IF r.status = "ok" THEN probas ELSE <<>>,
                 value |-> r.value]
    /\ UNCHANGED <<program, dm, table, hm, patients, s3, dDone, hDone>>

\* health-diagnosis.py never reads the bucket back: the uploads are kept as
\* the I/O trace of the call
HSave ==
    /\ program = "health"
    /\ ret.op = "none"
    /\ \E okSteps \in 0..(2 * Len(SaveFiles(hm))) :
         \E r \in {health_save_model(hm, okSteps)} :
         ret' = [op |-> "save_model", status |-> r.status, err |-> r.err, io |-> r.io]
    /\ UNCHANGED <<program, dm, table, hm, patients, s3, dDone, hDone>>

HLambda ==
    /\ program = "health_lambda"
    /\ ret.op = "none"
    /\ \E event \in HealthEvents : \E ctorOk \in BOOLEAN :
       \E preds \in [1..NumModels -> [1..1 -> Labels(HealthInit)]] :
       \E probas \in [1..NumModels -> [1..1 -> ProbaRows(HealthInit)]] :
         \E r \in {health_lambda_handler(event, ctorOk, preds, probas)} :
         ret' = [op |-> "lambda_handler", status |-> "ok", err |-> "",
                 event |-> event, ctorOk |-> ctorOk, preds |-> preds, probas |-> probas,
                 response |-> r.response, steps |-> r.steps,
                 invokedOn |-> r.invokedOn]
    /\ UNCHANGED <<program, dm, table, hm, patients, s3, dDone, hDone>>

\* the caller takes the value returned or the exception raised
Return ==
    /\ ret.op # "none"
    /\ program \in {"demand", "health"}
    /\ ret' = NoRet
    /\ UNCHANGED <<program, dm, table, hm, patients, s3, dDone, hDone>>

Init ==
    /\ program \in {"demand", "demand_lambda", "health", "health_lambda"}
    /\ dm = DemandInit
    /\ table \in IF program = "demand" THEN DemandTables ELSE {EmptyTable}
    /\ hm = HealthInit
    /\ patients \in IF program = "health" THEN HealthTables ELSE {EmptyTable}
    /\ s3 \in IF program = "demand_lambda" THEN S3States ELSE {[k \in Keys |-> Absent]}
    /\ ret = NoRet
    /\ dDone = {}
    /\ hDone = {}

Next ==
    \/ DBuild
    \/ DPrepare
    \/ DTrain
    \/ DPredict
    \/ DEvaluate
    \/ DSave
    \/ DLoad
    \/ DLambda
    \/ HPrepare
    \/ HTrain
    \/ HPredict
    \/ HPredictProba
    \/ HDiagnose
    \/ HSave
    \/ HLambda
    \/ Return

Spec == Init /\ [][Next]_vars

\* =========================================================================
\* Properties
\* =========================================================================

\* the number of classifiers whose label for sample i is l
VotesFor(preds, i, l) == Cardinality({m \in 1..NumModels : preds[m][i] = l})

\* C1: predict_ensemble returns one label per input sample, in input order;
\* the label of sample i was predicted for sample i by at least one of the
\* three classifiers and no other label has strictly more votes.
C1_MajorityVote ==
    (ret.op = "predict_ensemble" /\ ret.status = "ok") =>
        /\ Len(ret.value) = ret.samples
        /\ \A i \in 1..ret.samples :
            /\ VotesFor(ret.preds, i, ret.value[i]) >= 1
            /\ \A m \in 1..NumModels :
                 VotesFor(ret.preds, i, ret.preds[m][i]) <= VotesFor(ret.preds, i, ret.value[i])

\* two samples: a two-to-one vote won by the larger label, and a three-way tie
C1_Witness ==
    /\ ret.op = "predict_ensemble" /\ ret.status = "ok" /\ ret.samples = 2
    /\ ret.preds[1][1] = 2 /\ ret.preds[2][1] = 0 /\ ret.preds[3][1] = 2
    /\ ret.value[1] = 2
    /\ ret.preds[1][2] = 1 /\ ret.preds[2][2] = 2 /\ ret.preds[3][2] = 0
    /\ ret.value[2] \in {0, 1, 2}

\* the sum over the three classifiers of the probability of class c for sample i
RECURSIVE ProbaSum(_, _, _, _)
ProbaSum(probas, m, i, c) ==
    IF m = 0 THEN 0 ELSE probas[m][i][c] + ProbaSum(probas, m - 1, i, c)

\* the sum over the classes 1..c of the numerators of a row of the ensemble
RECURSIVE RowSum(_, _)
RowSum(row, c) == IF c = 0 THEN 0 ELSE row[c].num + RowSum(row, c - 1)

\* C6: predict_proba_ensemble returns, per sample and class, the mean of the
\* three classifiers' probabilities: three times the value is their sum; so
\* the values of a sample sum to the total each classifier's values sum to.
C6_MeanOfThree ==
    (ret.op = "predict_proba_ensemble" /\ ret.status = "ok") =>
        /\ Len(ret.value) = ret.samples
        /\ \A i \in 1..ret.samples :
            /\ Len(ret.value[i]) = Len(ret.probas[1][i])
            /\ \A c \in 1..Len(ret.value[i]) :
                 3 * ret.value[i][c].num
                   = ProbaSum(ret.probas, NumModels, i, c) * ret.value[i][c].den
            /\ \A c \in 1..Len(ret.value[i]) :
                 RowSum(ret.value[i], Len(ret.value[i])) = PTotal * ret.value[i][c].den

\* the classifiers disagree: class 1 gets a mean of 2/3, class 2 of 1/3
C6_Witness ==
    /\ ret.op = "predict_proba_ensemble" /\ ret.status = "ok" /\ ret.samples >= 1
    /\ ret.probas[1][1][1] = PTotal /\ ret.probas[2][1][1] = PTotal
    /\ ret.probas[3][1][2] = PTotal
    /\ ret.value[1][1].num = 2 * PTotal /\ ret.value[1][1].den = 3
    /\ ret.value[1][2].num = PTotal

\* C7: on an instance on which train() has not completed, predict_ensemble
\* and predict_proba_ensemble raise ValueError('Models not trained') before
\* the scaler, the feature selector or a classifier is used.
C7_UntrainedRaisesValueError ==
    (ret.op \in {"predict_ensemble", "predict_proba_ensemble"} /\ "train" \notin hDone) =>
        /\ ret.status = "raise"
        /\ ret.err = "ValueError: Models not trained"
        /\ ret.used = <<>>

\* C5: in save_model every upload of a file comes after the write of that
\* file in the same call; DemandForecastingModel.save_model with model = None
\* raises ValueError before any write or upload.
C5_WriteBeforeUpload ==
    ret.op = "save_model" =>
        /\ \A i \in 1..Len(ret.io) :
             ret.io[i].op = "upload" =>
                \E j \in 1..(i - 1) :
                    ret.io[j].op = "write" /\ ret.io[j].file = ret.io[i].file
        /\ (program = "demand" /\ dm.model.origin = "None") =>
              /\ ret.status = "raise"
              /\ ret.err = "ValueError: No model to save"
              /\ ret.io = <<>>

\* the health model saved whole: six files written and uploaded
C5_Witness ==
    /\ ret.op = "save_model" /\ ret.status = "ok" /\ program = "health"
    /\ Len(ret.io) = 12
    /\ ret.io[11] = [op |-> "write", file |-> "feature_selector"]
    /\ ret.io[12] = [op |-> "upload", file |-> "feature_selector"]

\* C9: predict with days_ahead = d >= 1 runs the loop d times and returns d
\* predictions in forecast order; every window has sequence_length rows; one
\* iteration maps [r1, ..., rL] to [r2, ..., rL, r'], r' being rL with its
\* sales (index 1 here) replaced by the value just predicted.
C9_SlidingWindow ==
    ret.op = "predict" =>
        /\ \A k \in 1..Len(ret.windows) : Len(ret.windows[k]) = dm.sequence_length
        /\ \A k \in 1..(Len(ret.windows) - 1) :
             ret.windows[k + 1]
               = Append(Tail(ret.windows[k]),
                        [ret.windows[k][dm.sequence_length] EXCEPT ![1] = ret.preds[k]])
        /\ (ret.status = "ok" /\ ret.days_ahead >= 1) =>
              /\ ret.iterations = ret.days_ahead
              /\ Len(ret.windows) = ret.days_ahead + 1
              /\ Len(ret.value) = ret.days_ahead
              /\ \A k \in 1..ret.days_ahead :
                   ret.value[k] = ret.preds[k] * ScaleRange(dm.scaler, 1)
                                  + dm.scaler.data_min[1] * FixedOne

\* two iterations on a window of three distinct rows
C9_Witness ==
    /\ ret.op = "predict" /\ ret.status = "ok" /\ ret.days_ahead = 2
    /\ ret.preds = <<FixedOne, 1>>
    /\ ret.windows[1][1] # ret.windows[1][2]
    /\ ret.windows[1][2] # ret.windows[1][3]
    /\ ret.windows[1][1] # ret.windows[1][3]
    /\ ret.windows[3][1] = ret.windows[1][3]
    /\ ret.windows[3][3][1] = 1

\* C8: predict raises ValueError('Model not trained. Call train() first.')
\* and returns no predictions in every state in which neither train() nor
\* load_model() has completed on the instance.
C8_UntrainedPredictRaises ==
    (ret.op = "predict" /\ dDone = {}) =>
        /\ ret.status = "raise"
        /\ ret.err = "ValueError: Model not trained. Call train() first."
        /\ ret.value = <<>>

\* every step of the demand handler returns for the inputs recorded in r
DemandStepsSucceed(r) ==
    /\ r.event.hasBody
    /\ r.event.body.wellFormed
    /\ r.ctorOk
    /\ load_model(DemandDefault, s3, ModelKey, r.loadOk).status = "ok"
    /\ r.event.body.value.hasData
    /\ LET input == r.event.body.value
           days == IF input.hasDays THEN input.days_ahead ELSE DefaultDays
           given == SubSeq(r.preds, 1, IF Len(r.preds) < days THEN Len(r.preds) ELSE days)
       IN predict(load_model(DemandDefault, s3, ModelKey, r.loadOk).obj, input.data,
                  days, given).status = "ok"

\* every step of the health handler returns for the inputs recorded in r
HealthStepsSucceed(r) ==
    /\ r.event.hasBody
    /\ r.event.body.wellFormed
    /\ r.ctorOk
    /\ diagnose(HealthInit, r.event.body.value, r.preds, r.probas).status = "ok"

\* C2: neither lambda_handler lets an exception out. The response has
\* statusCode 200 when every step returned, with the predictions or the
\* diagnosis, and 500 when a step raised, with error and timestamp and
\* neither predictions nor diagnosis.
C2_HandlersCatchEverything ==
    ret.op = "lambda_handler" =>
        LET allOk == IF program = "demand_lambda" THEN DemandStepsSucceed(ret)
                     ELSE HealthStepsSucceed(ret)
            keys == DOMAIN ret.response.body
        IN /\ ~ret.response.propagated
           /\ ret.response.statusCode = (IF allOk THEN 200 ELSE 500)
           /\ ret.response.statusCode = 500 =>
                 /\ {"error", "timestamp"} \subseteq keys
                 /\ "predictions" \notin keys /\ "diagnosis" \notin keys
           /\ ret.response.statusCode = 200 =>
                 /\ (IF program = "demand_lambda" THEN "predictions" ELSE "diagnosis") \in keys
                 /\ "error" \notin keys

\* the model was loaded and predict raised inside the handler
C2_Witness ==
    /\ ret.op = "lambda_handler" /\ program = "demand_lambda"
    /\ ret.steps = <<"json.loads", "__init__", "load_model", "predict">>
    /\ ret.response.statusCode = 500
    /\ ret.response.body.error = "model.predict failed"
    /\ ~ret.response.propagated

\* C3: when a lambda_handler calls predict or diagnose, the model it calls
\* it on has been trained or loaded.
C3_ModelReadyBeforeUse ==
    (/\ ret.op = "lambda_handler"
     /\ Len(ret.steps) > 0
     /\ ret.steps[Len(ret.steps)] \in {"predict", "diagnose"}) =>
        IF program = "demand_lambda"
        THEN ret.invokedOn.model.origin = "loaded"
        ELSE /\ ret.invokedOn.scaler.fitted
             /\ ret.invokedOn.feature_selector.fitted
             /\ \A k \in 1..NumModels : ret.invokedOn.models[ModelNames[k]]

\* the columns prepare_data assigns on the table it is given
DerivedColumns == {"day_of_week", "month", "is_weekend", "is_holiday"}

\* a step of prepare_data, prepare_features (and through it
\* preprocess_symptoms)
PrepareStep ==
    ret.op = "none" /\ ret'.op \in {"prepare_data", "prepare_features"}

\* C4, as stated: feature preparation is stateless. prepare_data,
\* prepare_features and preprocess_symptoms leave every field of the model
\* and the table they are given as they were.
C4_PreparationStateless ==
    [][PrepareStep => (dm' = dm /\ table' = table /\ hm' = hm /\ patients' = patients)]_vars

\* C4, amended: prepare_features and preprocess_symptoms leave the model and
\* the table as they were. prepare_data leaves model, sequence_length and
\* features of the model, the rows and the other columns of the table as they
\* were; it adds the derived columns to the table it is given once the date
\* column is there (is_holiday only when absent); a call that returns has
\* fitted the model's scaler to that table, a call that raises KeyError
\* leaves the scaler as it was and one that raises in the fit resets it.
C4_PreparationEffects ==
    [][PrepareStep =>
        /\ hm' = hm /\ patients' = patients
        /\ dm'.model = dm.model
        /\ dm'.sequence_length = dm.sequence_length
        /\ dm'.features = dm.features
        /\ Len(table'.rows) = Len(table.rows)
        /\ table.cols \subseteq table'.cols
        /\ table'.cols \subseteq table.cols \cup DerivedColumns
        /\ \A i \in 1..Len(table.rows) :
             \A c \in table.cols \ {"day_of_week", "month", "is_weekend"} :
                table'.rows[i][c] = table.rows[i][c]
        /\ ("date" \in table.cols /\ ret'.op = "prepare_data") =>
              DerivedColumns \subseteq table'.cols
        /\ (ret'.op = "prepare_data" /\ ret'.status = "ok") =>
              /\ dm'.scaler.fitted
              /\ dm'.scaler = ScalerFit(FeatureData(table'))
        /\ (ret'.op = "prepare_data" /\ ret'.status = "raise") =>
              dm'.scaler = (IF ret'.err \in {"KeyError: date", "KeyError: not in index"}
                            THEN dm.scaler ELSE NoScaler)
      ]_vars

\* prepare_data has returned: the scaler is fitted, the caller's table has
\* the derived columns and kept its is_holiday column
C4_Witness ==
    /\ ret.op = "prepare_data" /\ ret.status = "ok"
    /\ dm.scaler.fitted
    /\ DerivedColumns \subseteq table.cols
    /\ \E i \in 1..Len(table.rows) : table.rows[i]["is_holiday"] # 0
    /\ Len(ret.X) >= 1

====
